---- MODULE Spec2Model ----
(***************************************************************************)
(* picolibc tinystdio strtoi.h: the generic string-to-integer engine that  *)
(* is textually instantiated per integer type (strtoi_type, strtoi_min,    *)
(* strtoi_max, strtoi_signed).  One call of strtoi() is modelled as a      *)
(* state machine over the call's locals; every step is a pure operator on  *)
(* the call frame so that whole parses can also be compared as values.     *)
(***************************************************************************)
EXTENDS Integers, Sequences, FiniteSets, TLC

VARIABLES input, ibase, build, pc, s, nptr, val, flags, base, i, errno,
          endp, ret, maxRead

vars == <<input, ibase, build, pc, s, nptr, val, flags, base, i, errno,
          endp, ret, maxRead>>

(* ------------------------------------------------------------------ *)
(* Bounds of the model                                                *)
(* ------------------------------------------------------------------ *)

\* width in bits of the scaled-down strtoi_type instantiations
Bits == 6
\* width of the instantiation used for the documented example inputs
ExampleBits == 16
\* longest body (after whitespace and sign) of a generated input
MaxLen == 3
\* number of extra digits appended after a rendered magnitude
MaxTail == 1

(* ------------------------------------------------------------------ *)
(* Characters                                                         *)
(* ------------------------------------------------------------------ *)

\* ASCII code of the character literals the source uses
Ord(ch) ==
    CASE ch = "\t" -> 9
      [] ch = " " -> 32
      [] ch = "+" -> 43
      [] ch = "-" -> 45
      [] ch = "0" -> 48
      [] ch = "1" -> 49
      [] ch = "3" -> 51
      [] ch = "5" -> 53
      [] ch = "6" -> 54
      [] ch = "7" -> 55
      [] ch = "9" -> 57
      [] ch = ":" -> 58
      [] ch = "@" -> 64
      [] ch = "A" -> 65
      [] ch = "F" -> 70
      [] ch = "X" -> 88
      [] ch = "Z" -> 90
      [] ch = "a" -> 97
      [] ch = "b" -> 98
      [] ch = "c" -> 99
      [] ch = "f" -> 102
      [] ch = "x" -> 120
      [] ch = "z" -> 122

\* unsigned char arithmetic
U8(n) == n % 256

\* 'a' - 'A'
CASE_CONVERT == 32

\* (c) | CASE_CONVERT on a byte
TOLOW(c) == IF (c \div CASE_CONVERT) % 2 = 1 THEN c ELSE c + CASE_CONVERT

\* a plausible slip: the range stops short of '\015'
ISSPACEBug(c) == (9 <= c /\ c < 13) \/ c = Ord(" ")

\* ('\011' <= c && c <= '\015') || c == ' '
ISSPACE(c) == (9 <= c /\ c <= 13) \/ c = Ord(" ")

(* ------------------------------------------------------------------ *)
(* The instantiated integer type                                      *)
(* ------------------------------------------------------------------ *)

Pow2(n) == 2 ^ n

\* strtoi_max
strtoi_max(b) == IF b.signed THEN Pow2(b.bits - 1) - 1 ELSE Pow2(b.bits) - 1
\* strtoi_min
strtoi_min(b) == IF b.signed THEN -Pow2(b.bits - 1) ELSE 0

\* conversion to strtoi_utype (modulo 2^bits)
ToU(b, n) == n % Pow2(b.bits)

\* conversion to strtoi_type; arithmetic in strtoi_type wraps in two's
\* complement on every target the library is built for
ToT(b, n) ==
    LET u == n % Pow2(b.bits)
    IN  IF b.signed /\ u >= Pow2(b.bits - 1) THEN u - Pow2(b.bits) ELSE u

\* the character at 1-based position p; the terminating NUL sits at
\* position Len + 1
CharAt(in, p) == IF p <= Len(in) THEN in[p] ELSE 0

FLAG_NEG == "NEG"
FLAG_ANY == "ANY"
FLAG_OFLOW == "OFLOW"

(* ------------------------------------------------------------------ *)
(* The call frame and the steps of strtoi                             *)
(* ------------------------------------------------------------------ *)

Cur == [input |-> input, ibase |-> ibase, build |-> build, pc |-> pc,
        s |-> s, nptr |-> nptr, val |-> val, flags |-> flags,
        base |-> base, i |-> i, errno |-> errno, endp |-> endp,
        ret |-> ret, maxRead |-> maxRead]

\* the frame on entry to strtoi(nptr, endptr, ibase)
Entry(in, ib, bld) ==
    [input |-> in, ibase |-> ib, build |-> bld, pc |-> "entry",
     s |-> 1, nptr |-> 0, val |-> 0, flags |-> {}, base |-> 0, i |-> 0,
     errno |-> "none", endp |-> 0, ret |-> 0, maxRead |-> 0]

\* i = *s++
ReadNext(f) ==
    [f EXCEPT !.i = CharAt(f.input, f.s), !.s = f.s + 1,
              !.maxRead = IF f.s > f.maxRead THEN f.s ELSE f.maxRead]

\* a plausible slip: base 1 is let through
BadBaseBug(ib) == ib < 0 \/ ib > 36

\* (unsigned int) ibase > 36 || ibase == 1
BadBase(ib) == ib < 0 \/ ib > 36 \/ ib = 1

\* lines 60-76: base check and initialisation of the locals
CheckBaseStep(f) ==
    IF BadBase(f.ibase)
    THEN [f EXCEPT !.errno = "EINVAL", !.endp = f.nptr, !.ret = 0,
                   !.pc = "done"]
    ELSE [f EXCEPT !.s = 1, !.val = 0, !.flags = {},
                   !.base = U8(f.ibase), !.pc = "space"]

\* lines 79-81: one iteration of the do-while
SkipSpaceStep(f) ==
    LET g == ReadNext(f)
    IN  IF ISSPACE(g.i) THEN g ELSE [g EXCEPT !.pc = "sign"]

\* a plausible slip: the character after the sign position is fetched
\* whether or not there was a sign
SignStepBug(f) ==
    IF f.i = Ord("-")
    THEN [ReadNext([f EXCEPT !.flags = {FLAG_NEG}]) EXCEPT !.pc = "prefix"]
    ELSE [ReadNext(f) EXCEPT !.pc = "prefix"]

\* lines 84-90: the sign switch
SignStep(f) ==
    IF f.i = Ord("-")
    THEN [ReadNext([f EXCEPT !.flags = {FLAG_NEG}]) EXCEPT !.pc = "prefix"]
    ELSE IF f.i = Ord("+")
    THEN [ReadNext(f) EXCEPT !.pc = "prefix"]
    ELSE [f EXCEPT !.pc = "prefix"]

\* a plausible slip: the prefix is taken whatever the base
HexPrefixBug(c, b) == TOLOW(c) = Ord("x")

\* line 94: TOLOW(*s) == 'x' && (base == 0 || base == 16)
HexPrefix(c, b) == TOLOW(c) = Ord("x") /\ (b = 0 \/ b = 16)

\* lines 93-108: leading '0' and base indication.  *s is read only when
\* i == '0'; s[1] only when *s is 'x' or 'X'.
PrefixStep(f) ==
    IF f.i = Ord("0")
    THEN LET peek == CharAt(f.input, f.s)
             m1 == IF f.s > f.maxRead THEN f.s ELSE f.maxRead
         IN  IF HexPrefix(peek, f.base)
             THEN [f EXCEPT !.base = 16, !.nptr = f.s - 1,
                            !.i = CharAt(f.input, f.s + 1),
                            !.s = f.s + 2,
                            !.maxRead = IF f.s + 1 > m1 THEN f.s + 1 ELSE m1,
                            !.pc = "loop"]
             ELSE IF f.base = 0
             THEN [f EXCEPT !.base = 8, !.maxRead = m1, !.pc = "loop"]
             ELSE [f EXCEPT !.maxRead = m1, !.pc = "loop"]
    ELSE IF f.base = 0
    THEN [f EXCEPT !.base = 10, !.pc = "loop"]
    ELSE [f EXCEPT !.pc = "loop"]

\* a plausible slip: the limit of the positive range is used for a
\* negative number too
UCutoffBug(bld, fl) == strtoi_max(bld)

\* lines 114 and 118: the magnitude limit the cutoff pair is derived from
UCutoff(bld, fl) ==
    IF bld.signed
    THEN IF fl # {} THEN ToU(bld, -strtoi_min(bld)) ELSE strtoi_max(bld)
    ELSE strtoi_max(bld)
\* lines 115 and 118
Cutoff(bld, fl, b) == ToT(bld, UCutoff(bld, fl) \div b)
\* lines 116 and 119
Cutlim(bld, fl, b) == UCutoff(bld, fl) % b

\* lines 129-131: the digit value of the byte i, as an unsigned char
DigitVal(c) ==
    IF TOLOW(c) >= Ord("a")
    THEN U8(U8(TOLOW(c) + ((Ord("0") - Ord("a")) + 10)) - Ord("0"))
    ELSE U8(c - Ord("0"))

\* a plausible slip: only the multiply is checked
AccOverflowBug(bld, v, fl, b, d) ==
    LET prod == v * b
    IN  [val |-> ToT(bld, ToT(bld, prod) + d),
         flags |-> IF prod > strtoi_max(bld) THEN fl \cup {FLAG_OFLOW} ELSE fl]

\* lines 143-147: __builtin_mul_overflow / __builtin_add_overflow, the
\* add skipped by || once the multiply overflowed
AccOverflow(bld, v, fl, b, d) ==
    LET prod == v * b
        mulOv == prod > strtoi_max(bld)
        v1 == ToT(bld, prod)
        sum == v1 + d
        addOv == sum > strtoi_max(bld)
    IN  IF mulOv THEN [val |-> v1, flags |-> fl \cup {FLAG_OFLOW}]
        ELSE IF addOv THEN [val |-> ToT(bld, sum), flags |-> fl \cup {FLAG_OFLOW}]
        ELSE [val |-> sum, flags |-> fl]

\* lines 149-151: compare against cutoff/cutlim, then a wrapping
\* multiply-add
AccCutoff(bld, v, fl, b, d, cutoff, cutlim) ==
    [val |-> ToT(bld, v * b + d),
     flags |-> IF v > cutoff \/ (v = cutoff /\ d > cutlim)
               THEN fl \cup {FLAG_OFLOW} ELSE fl]

\* lines 128-155: one iteration of the digit loop.  cutoff and cutlim are
\* computed once before the loop from the sign flag and the effective
\* base, neither of which changes inside the loop.
DigitStep(f) ==
    LET d == DigitVal(f.i)
    IN  IF d >= f.base
        THEN [f EXCEPT !.pc = "final"]
        ELSE LET neg == f.flags \cap {FLAG_NEG}
                 a == IF f.build.useOverflow
                      THEN AccOverflow(f.build, f.val, f.flags, f.base, d)
                      ELSE AccCutoff(f.build, f.val, f.flags, f.base, d,
                                     Cutoff(f.build, neg, f.base),
                                     Cutlim(f.build, neg, f.base))
             IN  ReadNext([f EXCEPT !.val = a.val,
                                    !.flags = a.flags \cup {FLAG_ANY}])

\* lines 160-167: the clamp
Clamp(bld, fl) ==
    IF bld.signed
    THEN ToT(bld, strtoi_max(bld) + (IF FLAG_NEG \in fl THEN 1 ELSE 0))
    ELSE strtoi_max(bld)

\* a plausible slip: the start of the input is stored when no digit was
\* converted, the moved nptr being ignored
EndOffsetBug(f) == IF FLAG_ANY \in f.flags THEN f.s - 2 ELSE 0

\* line 170: the offset stored through endptr, relative to the original
\* nptr (the model follows a call whose endptr is not NULL)
EndOffset(f) == IF FLAG_ANY \in f.flags THEN f.s - 2 ELSE f.nptr

\* lines 157-172: negate, clamp, store endptr, return
FinishStep(f) ==
    LET v1 == IF FLAG_NEG \in f.flags THEN ToT(f.build, -f.val) ELSE f.val
        v2 == IF FLAG_OFLOW \in f.flags THEN Clamp(f.build, f.flags) ELSE v1
    IN  [f EXCEPT !.val = v2, !.ret = v2,
                  !.errno = IF FLAG_OFLOW \in f.flags THEN "ERANGE" ELSE f.errno,
                  !.endp = EndOffset(f),
                  !.pc = "done"]

\* the step taken from a frame
Step(f) ==
    CASE f.pc = "entry" -> CheckBaseStep(f)
      [] f.pc = "space" -> SkipSpaceStep(f)
      [] f.pc = "sign" -> SignStep(f)
      [] f.pc = "prefix" -> PrefixStep(f)
      [] f.pc = "loop" -> DigitStep(f)
      [] f.pc = "final" -> FinishStep(f)

RECURSIVE Run(_)
\* a whole call, from any frame to its return
Run(f) == IF f.pc = "done" THEN f ELSE Run(Step(f))

\* strtoi(nptr, endptr, ibase) as a function of its arguments
Strtoi(in, ib, bld) == Run(Entry(in, ib, bld))

(* ------------------------------------------------------------------ *)
(* Inputs                                                             *)
(* ------------------------------------------------------------------ *)

RECURSIVE SeqsUpTo(_, _)
SeqsUpTo(S, n) ==
    IF n = 0 THEN {<<>>}
    ELSE LET shorter == SeqsUpTo(S, n - 1)
         IN  shorter \cup {Append(q, c) : q \in shorter, c \in S}

\* the instantiations: a signed kind, and an unsigned kind built with
\* either overflow strategy (USE_OVERFLOW requires !strtoi_signed)
Builds(w) ==
    {[bits |-> w, signed |-> TRUE, useOverflow |-> FALSE],
     [bits |-> w, signed |-> FALSE, useOverflow |-> FALSE],
     [bits |-> w, signed |-> FALSE, useOverflow |-> TRUE]}

BodyChars == {Ord("0"), Ord("x"), Ord("7"), Ord(":"), Ord("F"), Ord(" "), Ord("-")}
WsRuns == {<<>>, <<Ord("\t"), Ord(" ")>>}
Signs == {<<>>, <<Ord("+")>>, <<Ord("-")>>}
GeneralBases == {0, 10, 16, 36, 1, 37, -1}

GeneralInputs ==
    {w \o g \o b : w \in WsRuns, g \in Signs, b \in SeqsUpTo(BodyChars, MaxLen)}

InitGeneral ==
    /\ input \in GeneralInputs
    /\ ibase \in GeneralBases
    /\ build \in Builds(Bits)

\* the digit character of value d, upper or lower case
DigitChar(d, up) ==
    IF d < 10 THEN Ord("0") + d
    ELSE IF up THEN Ord("A") + (d - 10) ELSE Ord("a") + (d - 10)

RECURSIVE Digits(_, _, _)
\* the digits of n >= 0 in base b, most significant first
Digits(n, b, up) ==
    IF n < b THEN <<DigitChar(n, up)>>
    ELSE Append(Digits(n \div b, b, up), DigitChar(n % b, up))

\* the canonical rendering of v in base b
Render(v, b, up) ==
    IF v < 0 THEN <<Ord("-")>> \o Digits(-v, b, up) ELSE Digits(v, b, up)

ValidBases == 2..36

\* every representable value of every kind, rendered in every base
InitCanon ==
    /\ build \in Builds(Bits)
    /\ ibase \in ValidBases
    /\ input \in {Render(v, ibase, up) :
                    v \in strtoi_min(build)..strtoi_max(build), up \in BOOLEAN}

\* magnitudes up to and beyond the range, with and without '-', followed
\* by further digits
InitRange ==
    /\ build \in Builds(Bits)
    /\ ibase \in ValidBases
    /\ input \in {g \o Digits(m, ibase, FALSE) \o t :
                    g \in {<<>>, <<Ord("-")>>},
                    m \in 0..(Pow2(build.bits) + 1),
                    t \in SeqsUpTo({Ord("0"), Ord("1")}, MaxTail)}

\* every byte right after one digit
InitBytes ==
    /\ build \in Builds(Bits)
    /\ ibase \in ValidBases
    /\ input \in {<<Ord("1")>>} \cup {<<Ord("1"), c>> : c \in 1..255}

ExampleInputs ==
    {<<Ord("0"), Ord("x"), Ord("1"), Ord("A")>>,
     <<Ord(" "), Ord(" "), Ord("-"), Ord("0"), Ord("7"), Ord("7"), Ord("7")>>,
     <<Ord("a"), Ord("b"), Ord("c")>>,
     <<Ord("0"), Ord("x")>>,
     <<Ord("9"), Ord("9"), Ord("9"), Ord("9"), Ord("9"), Ord("9")>>,
     <<Ord("6"), Ord("5"), Ord("5"), Ord("3"), Ord("5")>>}

\* the documented example inputs, in a 16-bit instantiation
InitExamples ==
    /\ build \in Builds(ExampleBits)
    /\ ibase \in {0, 10, 16, 1, 37}
    /\ input \in ExampleInputs

EdgeChars == {Ord("0"), Ord("x"), Ord("7")}

\* inputs that stop at every place the parser looks ahead: after
\* whitespace, after a sign, after a leading '0', after "0x"
InitEdges ==
    /\ build \in Builds(Bits)
    /\ ibase \in {0, 37}
    /\ input \in {w \o g \o b : w \in WsRuns, g \in Signs,
                                  b \in SeqsUpTo(EdgeChars, MaxLen)}

InitLocals ==
    /\ pc = "entry" /\ s = 1 /\ nptr = 0 /\ val = 0 /\ flags = {}
    /\ base = 0 /\ i = 0 /\ errno = "none" /\ endp = 0 /\ ret = 0
    /\ maxRead = 0

Init ==
    /\ InitGeneral \/ InitCanon \/ InitRange \/ InitBytes \/ InitExamples
    /\ InitLocals

(* ------------------------------------------------------------------ *)
(* Actions                                                            *)
(* ------------------------------------------------------------------ *)

Update(f) ==
    /\ input' = f.input /\ ibase' = f.ibase /\ build' = f.build
    /\ pc' = f.pc /\ s' = f.s /\ nptr' = f.nptr /\ val' = f.val
    /\ flags' = f.flags /\ base' = f.base /\ i' = f.i
    /\ errno' = f.errno /\ endp' = f.endp /\ ret' = f.ret
    /\ maxRead' = f.maxRead

CheckBase == pc = "entry" /\ Update(CheckBaseStep(Cur))
SkipSpace == pc = "space" /\ Update(SkipSpaceStep(Cur))
Sign == pc = "sign" /\ Update(SignStep(Cur))
Prefix == pc = "prefix" /\ Update(PrefixStep(Cur))
Digit == pc = "loop" /\ Update(DigitStep(Cur))
Finish == pc = "final" /\ Update(FinishStep(Cur))

Next == CheckBase \/ SkipSpace \/ Sign \/ Prefix \/ Digit \/ Finish

Spec == Init /\ [][Next]_vars

\* the look-ahead inputs only
EdgesInit == InitEdges /\ InitLocals
\* a call, once entered, runs to its return: the function is a single
\* synchronous pass with no blocking operation
FairSpec == EdgesInit /\ [][Next]_vars /\ WF_vars(Next)

\* the general inputs only
GeneralInit == InitGeneral /\ InitLocals
SpecGeneral == GeneralInit /\ [][Next]_vars

\* the canonical renderings only
CanonInit == InitCanon /\ InitLocals
SpecCanon == CanonInit /\ [][Next]_vars

\* the magnitudes around and beyond the range only
RangeInit == InitRange /\ InitLocals
SpecRange == RangeInit /\ [][Next]_vars

\* every byte after one digit only
BytesInit == InitBytes /\ InitLocals
SpecBytes == BytesInit /\ [][Next]_vars

(* ------------------------------------------------------------------ *)
(* Reference notions the properties are stated with                   *)
(* ------------------------------------------------------------------ *)

Done == pc = "done"

\* a base the parser accepts
GoodBase(ib) == ib = 0 \/ ib \in ValidBases

\* whitespace: bytes 0x09..0x0D and space
IsWhite(c) == c \in 9..13 \/ c = 32

\* what no byte that is a digit of some base is worth
NoDigit == 36 + 1

\* the value of c as a digit: '0'..'9', then letters of either case from
\* 10; NoDigit for every other byte
RefDigit(c) ==
    IF c \in Ord("0")..Ord("9") THEN c - Ord("0")
    ELSE IF c \in Ord("a")..Ord("z") THEN 10 + (c - Ord("a"))
    ELSE IF c \in Ord("A")..Ord("Z") THEN 10 + (c - Ord("A"))
    ELSE NoDigit

RECURSIVE SkipWhite(_, _)
\* the first position at or after p that holds no whitespace
SkipWhite(in, p) == IF IsWhite(CharAt(in, p)) THEN SkipWhite(in, p + 1) ELSE p

\* where the pieces of an input lie: sign, prefix, effective base and the
\* position at which digits start
Layout(in, ib) ==
    LET p1 == SkipWhite(in, 1)
        c1 == CharAt(in, p1)
        p2 == IF c1 = Ord("-") \/ c1 = Ord("+") THEN p1 + 1 ELSE p1
        zero == CharAt(in, p2) = Ord("0")
        pre == /\ zero
               /\ CharAt(in, p2 + 1) \in {Ord("x"), Ord("X")}
               /\ ib \in {0, 16}
    IN  [neg |-> c1 = Ord("-"),
         prefix |-> pre,
         zeroAt |-> p2,
         eff |-> IF pre THEN 16
                 ELSE IF ib = 0 THEN (IF zero THEN 8 ELSE 10) ELSE ib,
         start |-> IF pre THEN p2 + 2 ELSE p2]

RECURSIVE RunEnd(_, _, _)
\* the position after the maximal run of valid digits of base b from p
RunEnd(in, p, b) ==
    IF RefDigit(CharAt(in, p)) < b THEN RunEnd(in, p + 1, b) ELSE p

(* ------------------------------------------------------------------ *)
(* Properties                                                         *)
(* ------------------------------------------------------------------ *)

\* C1: parsing the canonical base-b rendering of any representable v
\* (both boundaries, either letter case) returns v, leaves errno alone
\* and consumes the whole rendering.
C1_CanonicalRoundTrip ==
    (Done /\ ibase \in ValidBases) =>
        \A v \in strtoi_min(build)..strtoi_max(build), up \in BOOLEAN :
            input = Render(v, ibase, up) =>
                /\ ret = v
                /\ errno = "none"
                /\ endp = Len(input)

\* the most negative value of a signed kind has been parsed from its
\* rendering in a base that needs letters
C1_Witness ==
    /\ Done /\ build.signed /\ ibase = 36
    /\ input = Render(strtoi_min(build), 36, TRUE)
    /\ ret = strtoi_min(build)

\* C3: a base that is neither 0 nor in 2..36 yields value 0, nothing
\* consumed, EINVAL, and not one character read.
C3_InvalidBase ==
    (Done /\ ~GoodBase(ibase)) =>
        /\ ret = 0
        /\ endp = 0
        /\ errno = "EINVAL"
        /\ maxRead = 0

C3_Witness == Done /\ ibase = 1 /\ Len(input) > 0 /\ errno = "EINVAL"

C5_EffectiveBase ==
    (Done /\ GoodBase(ibase)) =>
        LET L == Layout(input, ibase)
        IN  /\ base = L.eff
            /\ (nptr # 0) = L.prefix
            /\ L.prefix => (ibase \in {0, 16} /\ base = 16 /\ nptr = L.zeroAt)
            /\ (ibase = 0 /\ ~L.prefix) =>
                   IF CharAt(input, L.zeroAt) = Ord("0")
                   THEN base = 8 /\ FLAG_ANY \in flags /\ endp >= L.zeroAt
                   ELSE base = 10
            /\ (ibase \notin {0, 16}) => (base = ibase /\ nptr = 0)
            /\ (/\ ibase \notin {0, 16}
                /\ CharAt(input, L.zeroAt) = Ord("0")
                /\ CharAt(input, L.zeroAt + 1) = Ord("x"))
                   => (FLAG_ANY \in flags /\ (endp > L.zeroAt) = (ibase > 33))
            /\ (/\ build.bits = ExampleBits /\ ibase = 0
                /\ input = <<Ord("0"), Ord("x"), Ord("1"), Ord("A")>>)
                   => (ret = 26 /\ endp = 4 /\ errno = "none")
            /\ (/\ build.bits = ExampleBits /\ build.signed /\ ibase = 0
                /\ input = <<Ord(" "), Ord(" "), Ord("-"), Ord("0"),
                             Ord("7"), Ord("7"), Ord("7")>>)
                   => (ret = -511 /\ endp = 7 /\ errno = "none")

\* the octal example has been parsed
C5_Witness ==
    /\ Done /\ ibase = 0 /\ base = 8 /\ build.signed /\ ret = -511
    /\ endp = 7

RECURSIVE MagFrom(_, _, _, _, _, _)
\* the number the digits at positions p..e-1 denote in base b, saturated
\* just above cap
MagFrom(in, p, e, b, cap, acc) ==
    IF p >= e THEN acc
    ELSE LET n == acc * b + RefDigit(in[p])
         IN  MagFrom(in, p + 1, e, b, cap, IF n > cap THEN cap + 1 ELSE n)

\* C2: a digit run whose magnitude is out of range (above max, or above
\* |min| for a signed parse with '-'), however many digits follow the
\* first excess, gives ERANGE and the clamped value (min for a signed
\* negative parse, max otherwise); ERANGE is reported for no magnitude in
\* range.
C2_RangeClamp ==
    (Done /\ GoodBase(ibase)) =>
        LET L == Layout(input, ibase)
            e == RunEnd(input, L.start, L.eff)
            mag == MagFrom(input, L.start, e, L.eff, Pow2(build.bits), 0)
            low == build.signed /\ L.neg
            limit == IF low THEN -strtoi_min(build) ELSE strtoi_max(build)
        IN  /\ mag > limit =>
                   /\ errno = "ERANGE"
                   /\ ret = (IF low THEN strtoi_min(build) ELSE strtoi_max(build))
            /\ mag <= limit => errno # "ERANGE"

\* the four outcomes of a call
Status(f) ==
    IF f.errno = "EINVAL" THEN "InvalidConfiguration"
    ELSE IF f.errno = "ERANGE" THEN "OutOfRange"
    ELSE IF FLAG_ANY \notin f.flags THEN "NoDigitsConsumed"
    ELSE "Ok"

\* runs of whitespace to prepend: every whitespace byte alone, and mixed
\* longer runs
WhiteRuns ==
    {<<c>> : c \in 9..13 \cup {32}}
        \cup {<<32, 32>>, <<9, 10>>, <<13, 32, 11>>, <<12, 12, 9, 32>>}

\* the call on (w \o input) agrees with the finished call on input, the
\* count staying 0 or growing by Len(w)
SameShifted(w) ==
    LET r == Strtoi(w \o input, ibase, build)
    IN  /\ r.ret = ret
        /\ Status(r) = Status(Cur)
        /\ \/ endp = 0 /\ r.endp = 0 /\ FLAG_ANY \notin flags
           \/ endp > 0 /\ r.endp = endp + Len(w)

\* C6: prepending whitespace, or one '+' before an input that starts
\* with a digit, changes neither value nor status, and the consumed count
\* stays 0 or grows by the number of prepended characters.
C6_PrefixInsensitive ==
    (Done /\ GoodBase(ibase)) =>
        /\ \A w \in WhiteRuns : SameShifted(w)
        /\ (Len(input) > 0 /\ RefDigit(input[1]) # NoDigit)
               => SameShifted(<<Ord("+")>>)

\* an input that starts with a digit has been parsed, and the same input
\* behind a '+' and behind whitespace is consumed further by as much
C6_Witness ==
    /\ Done /\ GoodBase(ibase) /\ Len(input) > 1
    /\ RefDigit(input[1]) # NoDigit /\ endp > 1
    /\ Strtoi(<<Ord("+")>> \o input, ibase, build).endp = endp + 1
    /\ Strtoi(<<13, 32, 11>> \o input, ibase, build).endp = endp + 3

\* C7: the digit step accepts the byte i exactly when it is '0'..'9' or a
\* letter with value below the effective base; every other byte stops
\* the scan.
C7_DigitClass ==
    [][pc = "loop" => ((pc' = "loop") <=> (RefDigit(i) < base))]_vars

\* C8: for an unsigned kind the checked-arithmetic and the cutoff/cutlim
\* strategy return the same value, consumed count and status, and the
\* overflow flag once set stays set.
C8_Equiv ==
    (Done /\ ~build.signed) =>
        LET o == Strtoi(input, ibase, [build EXCEPT !.useOverflow = ~@])
        IN  /\ o.ret = ret
            /\ o.endp = endp
            /\ o.errno = errno
            /\ Status(o) = Status(Cur)

C8_Sticky == [][(FLAG_OFLOW \in flags) => (FLAG_OFLOW \in flags')]_vars

C8_StrategiesAgree == []C8_Equiv /\ C8_Sticky

\* an overflow found by the checked-arithmetic build, with digits after it
C8_Witness ==
    /\ Done /\ build.useOverflow /\ errno = "ERANGE"
    /\ ret = strtoi_max(build) /\ endp >= 4

\* C9: when a digit was accumulated, the consumed count is the offset of
\* the first character after the maximal run of valid digits of the
\* effective base, overflow or not.
C9_ConsumedRun ==
    (Done /\ GoodBase(ibase) /\ FLAG_ANY \in flags) =>
        LET L == Layout(input, ibase)
        IN  endp = RunEnd(input, L.start, L.eff) - 1

\* C10: the call returns, the read position only moves forward, no
\* character past the terminator is read, and the input is not written.
C10_Reads == maxRead <= Len(input) + 1 /\ s <= Len(input) + 3

C10_Forward == [][s' >= s /\ maxRead' >= maxRead /\ input' = input]_vars

C10_BoundedScan == []C10_Reads /\ C10_Forward /\ <>Done

\* inputs that end right after whitespace, after a sign, after a leading
\* '0' and after "0x" have all been read up to the terminator
C10_Witness ==
    /\ Done /\ maxRead = Len(input) + 1
    /\ input = <<Ord("\t"), Ord(" "), Ord("-"), Ord("0"), Ord("x")>>

====
